---------------------------- MODULE Spec2Model ----------------------------
(***************************************************************************)
(* A model of the aggregation and decoding core of networkctl              *)
(* (src/network/networkctl.c): the link table decoder, the vendor          *)
(* resolver, the gateway resolver, the LLDP log decoder and the status     *)
(* command.  Every component has its own specification (SpecLinks,         *)
(* SpecOui, ...) over the shared variables; a component that a             *)
(* specification does not exercise stays in its idle state.                *)
(***************************************************************************)
EXTENDS Integers, Sequences, FiniteSets, Bags, TLC

\* ------------------------------------------------------------------------
\* Bounds of the model
\* ------------------------------------------------------------------------
MaxMsgs == 3       \* longest netlink link dump
MaxIfindex == 3    \* kernel interface indexes range over 1..MaxIfindex
MaxNeigh == 3      \* longest neighbor table dump
MaxLldpLinks == 2  \* most interfaces of an lldp scan
MaxRecords == 2    \* most complete records of an LLDP log file
MaxArgs == 2       \* most interface arguments of the status command

\* ------------------------------------------------------------------------
\* Program constants
\* ------------------------------------------------------------------------
EINVAL == 22
ENOMEM == 12
ENODATA == 61
ENOENT == 2
INT_MAX == 2147483647

\* Optional values: None, or Some(v).  An attribute a message does not carry, an
\* output parameter the callee never wrote and the return value of a call that
\* has not happened are None.
None == <<>>
Some(v) == <<v>>
Val(o) == o[1]

VARIABLES
    \* decode_and_sort_links
    m,              \* the netlink reply: a sequence of messages
    oomAt,          \* Some(c): GREEDY_REALLOC fails when the array holds c records
    dl_links,       \* *ret of decode_and_sort_links: None until written
    dl_r,           \* its return value: None until it returns
    \* the hardware database and ieee_oui
    hwdb,           \* sd_hwdb *hwdb: None (NULL) or Some(database)
    oui_call,       \* the latest call of ieee_oui: None, or Some(arguments and outcome)
    oui_prev,       \* the call before it
    \* get_gateway_description
    gw_req,         \* its arguments: [ifindex, family, gateway]
    gw_transport,   \* return values of the three calls that obtain the dump
    neigh,          \* the neighbor dump: a sequence of messages
    gw_out,         \* None, or Some([r, description, examined])
    \* lldp_capabilities_to_string
    caps_x,         \* its argument
    caps_alloc,     \* whether new(char, 12) succeeds
    caps_ret,       \* None before the call, then Some(NULL or the string)
    \* link_lldp_status
    arg_legend,     \* static bool arg_legend
    lldp_transport, \* return values of sd_netlink_open and of the link query calls
    lldp_reply,     \* the link dump
    shape,          \* ifindex -> how /run/systemd/netif/lldp/<ifindex> was produced
    file,           \* ifindex -> that file: [kind, bytes]
    lldp_pc,        \* the statement link_lldp_status is at
    lldp_links,     \* LinkInfo *links, sorted
    lldp_i,         \* the loop variable i (1-based)
    lldp_j,         \* the counter j
    lldp_pos,       \* read position of the open file f
    lldp_u,         \* the length prefix read (8 bytes)
    lldp_out,       \* what was printed, in order
    lldp_log,       \* what was logged, in order
    lldp_r,         \* return value of link_lldp_status: None until it returns
    \* link_status
    arg_all,        \* static bool arg_all
    st_argv,        \* argv + 1: the interface arguments
    kernel,         \* the links the kernel knows
    st_open,        \* return value of sd_netlink_open
    st_pc,          \* the statement link_status is at
    st_links,       \* LinkInfo *links of "all" mode, sorted
    st_i,           \* position in the interface set (1-based)
    st_out,         \* what was printed, logged and sent to the kernel, in order
    st_r,           \* return value of link_status: None until it returns
    cmp_x,          \* link_info_compare: ifindex of the first record
    cmp_y,          \* ifindex of the second record
    cmp_ret,        \* what the comparison gave
    cmp_sorted      \* the two records after qsort_safe

linksVars == <<m, oomAt, dl_links, dl_r>>
ouiVars == <<hwdb, oui_call, oui_prev>>

gwVars == <<gw_req, gw_transport, neigh, gw_out>>

capsVars == <<caps_x, caps_alloc, caps_ret>>

lldpVars == <<arg_legend, lldp_transport, lldp_reply, shape, file, lldp_pc, lldp_links,
              lldp_i, lldp_j, lldp_pos, lldp_u, lldp_out, lldp_log, lldp_r>>

statusVars == <<arg_all, st_argv, kernel, st_open, st_pc, st_links, st_i, st_out, st_r>>
cmpVars == <<cmp_x, cmp_y, cmp_ret, cmp_sorted>>

vars == <<linksVars, ouiVars, gwVars, capsVars, lldpVars, statusVars, cmpVars>>

\* ------------------------------------------------------------------------
\* Helpers on sequences
\* ------------------------------------------------------------------------
SeqsUpTo(S, n) == UNION {[1..k -> S] : k \in 0..n}

Perms(n) == {p \in [1..n -> 1..n] : \A i, j \in 1..n : i # j => p[i] # p[j]}

\* ------------------------------------------------------------------------
\* LinkInfo and its comparator
\* ------------------------------------------------------------------------
LinkInfo(name, ifindex, iftype) ==
    [name |-> name, ifindex |-> ifindex, iftype |-> iftype]

\* a - b in 32-bit two's complement, for a, b in the range of int
Int32Sub(a, b) ==
    IF a >= 0 /\ b < 0 /\ a > INT_MAX + b
    THEN (a - INT_MAX - 1) - (b + INT_MAX + 1)          \* a - b - 2^32
    ELSE IF a < 0 /\ b > 0 /\ a < (-INT_MAX - 1) + b
    THEN (a + INT_MAX + 1) + ((INT_MAX - b) + 1)        \* a - b + 2^32
    ELSE a - b

link_info_compare_reversed(x, y) == Int32Sub(y.ifindex, x.ifindex)

link_info_compare(x, y) == Int32Sub(x.ifindex, y.ifindex)

\* The arrays qsort may leave behind: every rearrangement of arr in which no
\* element compares greater than its successor (all of them when the
\* comparator admits none).
qsort_safe(arr) ==
    LET n == Len(arr)
        arranged == {[i \in 1..n |-> arr[p[i]]] : p \in Perms(n)}
        ordered == {a \in arranged :
                      \A i \in 1..(n - 1) : link_info_compare(a[i], a[i + 1]) <= 0}
    IN  IF ordered # {} THEN ordered ELSE arranged

\* ------------------------------------------------------------------------
\* decode_and_sort_links
\* ------------------------------------------------------------------------
RTM_NEWLINK == "RTM_NEWLINK"
RTM_DELLINK == "RTM_DELLINK"

\* sd_rtnl_message_link_get_ifindex, sd_netlink_message_read_string(IFLA_IFNAME)
\* and sd_rtnl_message_link_get_type: the value, or a negative errno when the
\* message does not carry it.
link_get_ifindex(msg) == IF msg.ifindex = None THEN -EINVAL ELSE 0
read_ifname(msg) == IF msg.name = None THEN -ENODATA ELSE 0
link_get_type(msg) == IF msg.iftype = None THEN -EINVAL ELSE 0

\* The loop of decode_and_sort_links from message i on, with the array filled
\* so far: [r, links].  r < 0 is the early return.
RECURSIVE decode_loop_skipping_nothing(_, _, _, _)
decode_loop_skipping_nothing(msgs, i, links, oom) ==
    IF i > Len(msgs) THEN [r |-> 0, links |-> links]
    ELSE LET msg == msgs[i] IN
         IF link_get_ifindex(msg) < 0 THEN [r |-> link_get_ifindex(msg), links |-> links]
         ELSE IF read_ifname(msg) < 0 THEN [r |-> read_ifname(msg), links |-> links]
         ELSE IF link_get_type(msg) < 0 THEN [r |-> link_get_type(msg), links |-> links]
         ELSE IF oom = Some(Len(links)) THEN [r |-> -ENOMEM, links |-> links]
         ELSE decode_loop_skipping_nothing(msgs, i + 1,
                  Append(links, LinkInfo(Val(msg.name), Val(msg.ifindex), Val(msg.iftype))), oom)

RECURSIVE decode_loop(_, _, _, _)
decode_loop(msgs, i, links, oom) ==
    IF i > Len(msgs) THEN [r |-> 0, links |-> links]
    ELSE LET msg == msgs[i] IN
         IF msg.type # RTM_NEWLINK THEN decode_loop(msgs, i + 1, links, oom)
         ELSE IF link_get_ifindex(msg) < 0 THEN [r |-> link_get_ifindex(msg), links |-> links]
         ELSE IF read_ifname(msg) < 0 THEN [r |-> read_ifname(msg), links |-> links]
         ELSE IF link_get_type(msg) < 0 THEN [r |-> link_get_type(msg), links |-> links]
         ELSE IF oom = Some(Len(links)) THEN [r |-> -ENOMEM, links |-> links]
         ELSE decode_loop(msgs, i + 1,
                  Append(links, LinkInfo(Val(msg.name), Val(msg.ifindex), Val(msg.iftype))), oom)

\* The outcomes of decode_and_sort_links(msgs, &ret): [r, ret], ret = None
\* when the function returns before writing it.
decode_and_sort_links(msgs, oom) ==
    LET d == decode_loop(msgs, 1, <<>>, oom) IN
    IF d.r < 0 THEN {[r |-> d.r, ret |-> None]}
    ELSE {[r |-> Len(sorted), ret |-> Some(sorted)] : sorted \in qsort_safe(d.links)}

\* ------------------------------------------------------------------------
\* Inputs of the link decoder
\* ------------------------------------------------------------------------
ARPHRD_ETHER == "ARPHRD_ETHER"
ARPHRD_LOOPBACK == "ARPHRD_LOOPBACK"

Msg(type, ifindex, name, iftype) ==
    [type |-> type, ifindex |-> ifindex, name |-> name, iftype |-> iftype]

LinkKinds == {<<"lo", ARPHRD_LOOPBACK>>, <<"eth0", ARPHRD_ETHER>>}

LinkMsgs ==
    {Msg(RTM_NEWLINK, Some(ix), Some(k[1]), Some(k[2])) :
        ix \in 1..MaxIfindex, k \in LinkKinds}
    \cup {Msg(RTM_NEWLINK, None, Some("lo"), Some(ARPHRD_LOOPBACK)),
          Msg(RTM_NEWLINK, Some(1), None, Some(ARPHRD_LOOPBACK)),
          Msg(RTM_NEWLINK, Some(1), Some("lo"), None),
          Msg(RTM_NEWLINK, None, None, None)}
    \cup {Msg(RTM_DELLINK, Some(2), Some("eth0"), Some(ARPHRD_ETHER)),
          Msg(RTM_DELLINK, None, None, None)}

AF_INET == "AF_INET"
AF_INET6 == "AF_INET6"

CmpIdle ==
    /\ cmp_x = 0
    /\ cmp_y = 0
    /\ cmp_ret = None
    /\ cmp_sorted = None

StatusIdle ==
    /\ arg_all = FALSE
    /\ st_argv = <<>>
    /\ kernel = {}
    /\ st_open = 0
    /\ st_pc = "idle"
    /\ st_links = <<>>
    /\ st_i = 1
    /\ st_out = <<>>
    /\ st_r = None

LldpIdle ==
    /\ arg_legend = TRUE
    /\ lldp_transport = [open |-> 0, new |-> 0, dump |-> 0, call |-> 0]
    /\ lldp_reply = <<>>
    /\ shape = <<>>
    /\ file = <<>>
    /\ lldp_pc = "idle"
    /\ lldp_links = <<>>
    /\ lldp_i = 1
    /\ lldp_j = 0
    /\ lldp_pos = 0
    /\ lldp_u = <<>>
    /\ lldp_out = <<>>
    /\ lldp_log = <<>>
    /\ lldp_r = None

CapsIdle ==
    /\ caps_x = 0
    /\ caps_alloc = TRUE
    /\ caps_ret = None

GwIdle ==
    /\ gw_req = [ifindex |-> 0, family |-> AF_INET, gateway |-> <<0, 0>>]
    /\ gw_transport = [new |-> 0, dump |-> 0, call |-> 0]
    /\ neigh = <<>>
    /\ gw_out = None

OuiIdle ==
    /\ hwdb = None
    /\ oui_call = None
    /\ oui_prev = None

LinksIdle ==
    /\ m = <<>>
    /\ oomAt = None
    /\ dl_links = None
    /\ dl_r = None

InitLinks ==
    /\ m \in SeqsUpTo(LinkMsgs, MaxMsgs)
    /\ oomAt \in {None} \cup {Some(c) : c \in 0..(MaxMsgs - 1)}
    /\ dl_links = None
    /\ dl_r = None
    /\ OuiIdle
    /\ GwIdle
    /\ CapsIdle
    /\ LldpIdle
    /\ StatusIdle
    /\ CmpIdle

DecodeAndSortLinks ==
    /\ dl_r = None
    /\ \E out \in decode_and_sort_links(m, oomAt) :
         /\ dl_r' = Some(out.r)
         /\ dl_links' = out.ret
    /\ UNCHANGED <<m, oomAt, ouiVars, gwVars, capsVars, lldpVars, statusVars, cmpVars>>

NextLinks == DecodeAndSortLinks

SpecLinks == InitLinks /\ [][NextLinks]_vars

\* ------------------------------------------------------------------------
\* The hardware database and ieee_oui
\* ------------------------------------------------------------------------
HexDigits == <<"0", "1", "2", "3", "4", "5", "6", "7",
               "8", "9", "A", "B", "C", "D", "E", "F">>

\* "%02X" of one byte
Hex2(b) == <<HexDigits[(b \div 16) + 1], HexDigits[(b % 16) + 1]>>

\* "OUI:" ETHER_ADDR_FORMAT_STR over ETHER_ADDR_FORMAT_VAL(*mac): the template
\* "OUI:XXYYXXYYXXYY" that sizes the buffer, one "%02X" per byte of the address
modalias_top3(mac) ==
    <<"O", "U", "I", ":">> \o Hex2(mac[1]) \o Hex2(mac[2]) \o Hex2(mac[3])

modalias(mac) ==
    <<"O", "U", "I", ":">> \o Hex2(mac[1]) \o Hex2(mac[2]) \o Hex2(mac[3])
                           \o Hex2(mac[4]) \o Hex2(mac[5]) \o Hex2(mac[6])

\* A database entry matches a key that equals its pattern, or that begins with
\* it when the pattern ends in a wildcard.
HwdbMatches(entry, key) ==
    IF entry.glob
    THEN Len(key) >= Len(entry.pattern) /\ SubSeq(key, 1, Len(entry.pattern)) = entry.pattern
    ELSE key = entry.pattern

\* sd_hwdb_get(hwdb, modalias, "ID_OUI_FROM_DATABASE", &description): the
\* property of the most specific matching entry, or -ENOENT
sd_hwdb_get(db, key) ==
    LET hits == {en \in db : HwdbMatches(en, key)} IN
    IF hits = {} THEN [r |-> -ENOENT, description |-> None]
    ELSE LET best == CHOOSE en \in hits :
                        \A o \in hits : Len(o.pattern) <= Len(en.pattern)
         IN  [r |-> 0, description |-> Some(best.desc)]

\* ieee_oui(hwdb, mac, &ret): [r, ret, queried], ret = None when *ret is not
\* written, queried = the keys handed to sd_hwdb_get.  oom: strdup fails.
ieee_oui_without_prefix_test(h, mac, oom) ==
    IF h = None THEN [r |-> -EINVAL, ret |-> None, queried |-> <<>>]
    ELSE IF mac = None THEN [r |-> -EINVAL, ret |-> None, queried |-> <<>>]
    ELSE LET key == modalias(Val(mac))
             got == sd_hwdb_get(Val(h), key)
         IN  IF got.r < 0 THEN [r |-> got.r, ret |-> None, queried |-> <<key>>]
             ELSE IF oom THEN [r |-> -ENOMEM, ret |-> None, queried |-> <<key>>]
             ELSE [r |-> 0, ret |-> got.description, queried |-> <<key>>]

ieee_oui(h, mac, oom) ==
    IF h = None THEN [r |-> -EINVAL, ret |-> None, queried |-> <<>>]
    ELSE IF mac = None THEN [r |-> -EINVAL, ret |-> None, queried |-> <<>>]
    ELSE IF <<Val(mac)[1], Val(mac)[2], Val(mac)[3]>> = <<0, 0, 0>>
         THEN [r |-> -EINVAL, ret |-> None, queried |-> <<>>]
    ELSE LET key == modalias(Val(mac))
             got == sd_hwdb_get(Val(h), key)
         IN  IF got.r < 0 THEN [r |-> got.r, ret |-> None, queried |-> <<key>>]
             ELSE IF oom THEN [r |-> -ENOMEM, ret |-> None, queried |-> <<key>>]
             ELSE [r |-> 0, ret |-> got.description, queried |-> <<key>>]

\* Inputs: hardware addresses and databases
MacTops == {<<0, 0, 0>>, <<0, 0, 1>>, <<0, 27, 33>>, <<171, 205, 239>>}
MacLows == {<<0, 0, 0>>, <<171, 205, 239>>, <<1, 2, 3>>}
Macs == {t \o l : t \in MacTops, l \in MacLows}

HwdbEntry(pattern, glob, desc) == [pattern |-> pattern, glob |-> glob, desc |-> desc]

OuiPrefix(mac) == SubSeq(modalias(mac), 1, 10)

Databases ==
    { {},
      {HwdbEntry(OuiPrefix(<<0, 27, 33, 0, 0, 0>>), TRUE, "Intel")},
      {HwdbEntry(OuiPrefix(<<0, 27, 33, 0, 0, 0>>), TRUE, "Intel"),
       HwdbEntry(OuiPrefix(<<0, 0, 0, 0, 0, 0>>), TRUE, "Xerox"),
       HwdbEntry(OuiPrefix(<<0, 0, 1, 0, 0, 0>>), TRUE, "Xerox")},
      {HwdbEntry(OuiPrefix(<<171, 205, 239, 0, 0, 0>>), TRUE, "Acme"),
       HwdbEntry(modalias(<<171, 205, 239, 1, 2, 3>>), FALSE, "Acme Labs"),
       HwdbEntry(modalias(<<0, 0, 0, 171, 205, 239>>), FALSE, "Nobody")} }

InitOui ==
    /\ hwdb \in {None} \cup {Some(db) : db \in Databases}
    /\ oui_call = None
    /\ oui_prev = None
    /\ LinksIdle
    /\ GwIdle
    /\ CapsIdle
    /\ LldpIdle
    /\ StatusIdle
    /\ CmpIdle

\* One call of ieee_oui, as link_status_one and get_gateway_description make it
IeeeOui ==
    /\ \E mac \in {None} \cup {Some(a) : a \in Macs}, oom \in BOOLEAN :
         oui_call' = Some([mac |-> mac, oom |-> oom, out |-> ieee_oui(hwdb, mac, oom)])
    /\ oui_prev' = oui_call
    /\ UNCHANGED <<hwdb, linksVars, gwVars, capsVars, lldpVars, statusVars, cmpVars>>

NextOui == IeeeOui

SpecOui == InitOui /\ [][NextOui]_vars

\* ------------------------------------------------------------------------
\* get_gateway_description
\* ------------------------------------------------------------------------
RTM_NEWNEIGH == "RTM_NEWNEIGH"
RTM_DELNEIGH == "RTM_DELNEIGH"

\* An address is <<first 4 bytes, remaining 12 bytes>> of union in_addr_union.
\* sd_netlink_message_read_in_addr fills the first part of the zeroed gw,
\* sd_netlink_message_read_in6_addr all of it.
read_dst(fam, e) ==
    IF fam = AF_INET THEN <<Val(e.dst)[1], 0>> ELSE Val(e.dst)

\* in_addr_equal: 4 bytes for AF_INET, 16 for AF_INET6
in_addr_equal(fam, a, b) ==
    IF fam = AF_INET THEN a[1] = b[1] ELSE a = b

\* The tests of one loop iteration before the vendor lookup: TRUE when the
\* iteration reaches ieee_oui, FALSE when it ends in a continue.
neigh_reaches_oui_any_ifindex(req, e) ==
    /\ e.errno >= 0
    /\ e.type # None
    /\ Val(e.type) = RTM_NEWNEIGH
    /\ e.family # None
    /\ Val(e.family) = req.family
    /\ e.ifindex # None
    /\ Val(e.family) \in {AF_INET, AF_INET6}
    /\ e.dst # None
    /\ in_addr_equal(Val(e.family), read_dst(Val(e.family), e), req.gateway)
    /\ e.lladdr # None

neigh_reaches_oui(req, e) ==
    /\ e.errno >= 0
    /\ e.type # None
    /\ Val(e.type) = RTM_NEWNEIGH
    /\ e.family # None
    /\ Val(e.family) = req.family
    /\ e.ifindex # None
    /\ ~(req.ifindex > 0 /\ Val(e.ifindex) # req.ifindex)
    /\ Val(e.family) \in {AF_INET, AF_INET6}
    /\ e.dst # None
    /\ in_addr_equal(Val(e.family), read_dst(Val(e.family), e), req.gateway)
    /\ e.lladdr # None

\* The loop over the reply from entry i on
RECURSIVE neigh_loop(_, _, _, _)
neigh_loop(h, req, tbl, i) ==
    IF i > Len(tbl)
    THEN [r |-> -ENODATA, description |-> None, examined |-> Len(tbl)]
    ELSE IF ~neigh_reaches_oui(req, tbl[i]) THEN neigh_loop(h, req, tbl, i + 1)
    ELSE LET v == ieee_oui(h, tbl[i].lladdr, FALSE) IN
         IF v.r < 0 THEN neigh_loop(h, req, tbl, i + 1)
         ELSE [r |-> 0, description |-> v.ret, examined |-> i]

\* get_gateway_description(rtnl, hwdb, ifindex, family, gateway,
\* &gateway_description): [r, description, examined], description = None when
\* the output is not written, examined = the number of entries the loop visited
get_gateway_description_hiding_failures(h, req, transport, tbl) ==
    IF transport.new < 0 \/ transport.dump < 0 \/ transport.call < 0
    THEN [r |-> -ENODATA, description |-> None, examined |-> 0]
    ELSE neigh_loop(h, req, tbl, 1)

get_gateway_description(h, req, transport, tbl) ==
    IF transport.new < 0
    THEN [r |-> transport.new, description |-> None, examined |-> 0]
    ELSE IF transport.dump < 0
    THEN [r |-> transport.dump, description |-> None, examined |-> 0]
    ELSE IF transport.call < 0
    THEN [r |-> transport.call, description |-> None, examined |-> 0]
    ELSE neigh_loop(h, req, tbl, 1)

\* Inputs: requests, neighbor messages, the database
MacIntel == <<0, 27, 33, 1, 2, 3>>
MacAcme == <<171, 205, 239, 0, 0, 0>>
MacUnknown == <<0, 0, 1, 1, 2, 3>>
MacZeroPrefix == <<0, 0, 0, 171, 205, 239>>

GwDatabase ==
    {HwdbEntry(OuiPrefix(MacIntel), TRUE, "Intel"),
     HwdbEntry(OuiPrefix(MacAcme), TRUE, "Acme"),
     HwdbEntry(OuiPrefix(MacZeroPrefix), TRUE, "Xerox")}

Neigh(errno, type, family, ifindex, dst, lladdr) ==
    [errno |-> errno, type |-> type, family |-> family, ifindex |-> ifindex,
     dst |-> dst, lladdr |-> lladdr]

NeighBase ==
    Neigh(0, Some(RTM_NEWNEIGH), Some(AF_INET), Some(1), Some(<<10, 0>>), Some(MacIntel))

NeighMsgs ==
    {NeighBase}
    \cup {[NeighBase EXCEPT !.errno = -EINVAL]}
    \cup {[NeighBase EXCEPT !.type = t] : t \in {None, Some(RTM_DELNEIGH)}}
    \cup {[NeighBase EXCEPT !.family = None]}
    \cup {[NeighBase EXCEPT !.ifindex = x] : x \in {None, Some(2)}}
    \cup {[NeighBase EXCEPT !.dst = d] : d \in {None, Some(<<20, 0>>)}}
    \cup {[NeighBase EXCEPT !.lladdr = l] :
             l \in {None, Some(MacUnknown), Some(MacZeroPrefix), Some(MacAcme)}}
    \cup {[NeighBase EXCEPT !.family = Some(AF_INET6), !.dst = d, !.lladdr = l] :
             d \in {Some(<<10, 0>>), Some(<<10, 7>>)}, l \in {None, Some(MacAcme)}}
    \cup {[NeighBase EXCEPT !.ifindex = Some(2), !.lladdr = Some(MacAcme)]}

GwRequests ==
    {[ifindex |-> x, family |-> AF_INET, gateway |-> g] :
        x \in {0, 1}, g \in {<<10, 0>>, <<10, 7>>}}
    \cup {[ifindex |-> 0, family |-> AF_INET6, gateway |-> <<10, 7>>]}

TransportOk == [new |-> 0, dump |-> 0, call |-> 0]

TransportFailures ==
    {[TransportOk EXCEPT !.new = -ENOMEM],
     [TransportOk EXCEPT !.dump = -EINVAL],
     [TransportOk EXCEPT !.call = -ENOMEM]}

InitGateway ==
    /\ hwdb \in {None, Some(GwDatabase)}
    /\ gw_req \in GwRequests
    /\ \/ gw_transport = TransportOk /\ neigh \in SeqsUpTo(NeighMsgs, MaxNeigh)
       \/ gw_transport \in TransportFailures /\ neigh = <<>>
    /\ gw_out = None
    /\ oui_call = None
    /\ oui_prev = None
    /\ LinksIdle
    /\ CapsIdle
    /\ LldpIdle
    /\ StatusIdle
    /\ CmpIdle

GetGatewayDescription ==
    /\ gw_out = None
    /\ gw_out' = Some(get_gateway_description(hwdb, gw_req, gw_transport, neigh))
    /\ UNCHANGED <<gw_req, gw_transport, neigh, ouiVars, linksVars, capsVars, lldpVars, statusVars, cmpVars>>

NextGateway == GetGatewayDescription

SpecGateway == InitGateway /\ [][NextGateway]_vars

\* ------------------------------------------------------------------------
\* lldp_capabilities_to_string
\* ------------------------------------------------------------------------
UINT16_MAX == 65535

\* a & b on unsigned values
RECURSIVE BitAnd(_, _)
BitAnd(a, b) ==
    IF a = 0 \/ b = 0 THEN 0
    ELSE (a % 2) * (b % 2) + 2 * BitAnd(a \div 2, b \div 2)

\* 1U << i
Shl1(i) == 2 ^ i

characters_t_and_d_swapped == <<"o", "p", "b", "w", "r", "d", "t", "a", "c", "s", "m">>

characters == <<"o", "p", "b", "w", "r", "t", "d", "a", "c", "s", "m">>

\* lldp_capabilities_to_string(x): None for NULL, else Some(the string);
\* ret[i] of the code is position i + 1 here
lldp_capabilities_to_string(x, alloc) ==
    IF ~alloc THEN None
    ELSE Some([i \in 1..Len(characters) |->
                 IF BitAnd(x, Shl1(i - 1)) # 0 THEN characters[i] ELSE "."])

InitCaps ==
    /\ caps_x \in 0..UINT16_MAX
    /\ caps_alloc \in BOOLEAN
    /\ caps_ret = None
    /\ LinksIdle
    /\ OuiIdle
    /\ GwIdle
    /\ LldpIdle
    /\ StatusIdle
    /\ CmpIdle

LldpCapabilitiesToString ==
    /\ caps_ret = None
    /\ caps_ret' = Some(lldp_capabilities_to_string(caps_x, caps_alloc))
    /\ UNCHANGED <<caps_x, caps_alloc, linksVars, ouiVars, gwVars, lldpVars, statusVars, cmpVars>>

NextCaps == LldpCapabilitiesToString

SpecCaps == InitCaps /\ [][NextCaps]_vars

\* ------------------------------------------------------------------------
\* link_lldp_status
\* ------------------------------------------------------------------------
EACCES == 13

Min(a, b) == IF a < b THEN a ELSE b

RECURSIVE Flatten(_)
Flatten(ss) == IF ss = <<>> THEN <<>> ELSE Head(ss) \o Flatten(Tail(ss))

\* The 8-byte little-endian length the producer writes before a frame
LE64(n) ==
    <<n % 256, (n \div 256) % 256, (n \div 65536) % 256, (n \div 16777216) % 256,
      0, 0, 0, 0>>

\* le64toh(u) as a size: its value n when it is below 2^31; big when it is not,
\* which is more than any file here holds; huge when it is at least 2^63, more
\* than PTRDIFF_MAX, which malloc refuses
le64toh(u) ==
    IF u[5] = 0 /\ u[6] = 0 /\ u[7] = 0 /\ u[8] = 0 /\ u[4] < 128
    THEN [big |-> FALSE, huge |-> FALSE,
          n |-> u[1] + 256 * u[2] + 65536 * u[3] + 16777216 * u[4]]
    ELSE [big |-> TRUE, huge |-> u[8] >= 128, n |-> 0]

\* new(uint8_t, size): the values of "raw != NULL" malloc can give.  A size
\* of 2^31 or more, up to PTRDIFF_MAX, is granted or not as the memory of the
\* machine allows.
new_raw(size) ==
    IF size.huge THEN {FALSE} ELSE IF size.big THEN BOOLEAN ELSE {TRUE}

\* fopen(p, "re"): [ok, errno]
fopen(f) ==
    IF f.kind = "absent" THEN [ok |-> FALSE, errno |-> ENOENT]
    ELSE IF f.kind = "noaccess" THEN [ok |-> FALSE, errno |-> EACCES]
    ELSE [ok |-> TRUE, errno |-> 0]

\* fread(ptr, 1, size, f) at position pos: the bytes read
fread(f, pos, size) ==
    IF f.kind = "ioerror" THEN <<>>
    ELSE IF size.big THEN SubSeq(f.bytes, pos + 1, Len(f.bytes))
    ELSE SubSeq(f.bytes, pos + 1, Min(pos + size.n, Len(f.bytes)))

\* feof(f) after that fread
feof(f, pos, size) ==
    f.kind # "ioerror" /\ (size.big \/ pos + size.n > Len(f.bytes))

\* The test on the second fread when a short read passes for a full one
read_all_accepting_short(f, pos, size) == ~size.big

\* whether fread(raw, 1, le64toh(u), f) returned le64toh(u)
read_all(f, pos, size) == ~size.big /\ Len(fread(f, pos, size)) = size.n

\* sd_lldp_neighbor_from_raw(&n, raw, size): a frame is one that starts with a
\* non-zero byte
sd_lldp_neighbor_from_raw(raw) ==
    IF Len(raw) >= 1 /\ raw[1] # 0 THEN 0 ELSE -EINVAL

SizeOf(n) == [big |-> FALSE, huge |-> FALSE, n |-> n]

\* --- inputs: the links and the log files
IfNames == <<"lo", "eth0", "eth1", "eth2">>

LldpLinkMsg(ix) ==
    Msg(RTM_NEWLINK, Some(ix), Some(IfNames[ix]),
        Some(IF ix = 1 THEN ARPHRD_LOOPBACK ELSE ARPHRD_ETHER))

LldpReplies ==
    {r \in SeqsUpTo({LldpLinkMsg(ix) : ix \in 1..MaxLldpLinks}, MaxLldpLinks) :
        \A a, b \in DOMAIN r : a # b => r[a] # r[b]}
    \cup {<<Msg(RTM_NEWLINK, Some(1), None, Some(ARPHRD_LOOPBACK))>>}

FrameA == <<1>>
FrameB == <<2, 7>>

Shape(kind, records, tailKind, tail) ==
    [kind |-> kind, records |-> records, tailKind |-> tailKind, tail |-> tail]

AbsentShape == Shape("absent", <<>>, "none", <<>>)

LengthHuge == <<255, 255, 255, 255, 255, 255, 255, 255>>  \* 2^64 - 1

Tails ==
    {<<"none", <<>>>>}
    \cup {<<"fragment", SubSeq(LE64(2), 1, k)>> : k \in 1..7}
    \cup {<<"short", LE64(1)>>, <<"short", LE64(2)>>, <<"short", LE64(2) \o <<9>>>>}
    \cup {<<"short", LengthHuge \o rest>> : rest \in {<<>>, <<9>>}}
    \cup {<<"unparsable", LE64(1) \o <<0>>>>,
          <<"unparsable", LE64(1) \o <<0>> \o LE64(1) \o FrameA>>,
          <<"unparsable", LE64(0)>>}

Shapes ==
    {AbsentShape, Shape("noaccess", <<>>, "none", <<>>), Shape("ioerror", <<>>, "none", <<>>)}
    \cup {Shape("regular", recs, t[1], t[2]) :
             recs \in SeqsUpTo({FrameA, FrameB}, MaxRecords), t \in Tails}

\* The file a producer leaves that wrote the records, then the tail
FileOf(sh) ==
    [kind |-> sh.kind,
     bytes |-> Flatten([k \in DOMAIN sh.records |->
                           LE64(Len(sh.records[k])) \o sh.records[k]]) \o sh.tail]

LldpTransportOk == [open |-> 0, new |-> 0, dump |-> 0, call |-> 0]

LldpTransportFailures ==
    {[LldpTransportOk EXCEPT !.open = -ENOMEM],
     [LldpTransportOk EXCEPT !.new = -ENOMEM],
     [LldpTransportOk EXCEPT !.dump = -EINVAL],
     [LldpTransportOk EXCEPT !.call = -ENOMEM]}

InitLldp ==
    /\ arg_legend \in BOOLEAN
    /\ \/ /\ lldp_transport = LldpTransportOk
          /\ lldp_reply \in LldpReplies
          /\ shape \in {sh \in [1..MaxLldpLinks -> Shapes] :
                          \A ix \in 1..MaxLldpLinks :
                              (\A k \in DOMAIN lldp_reply : lldp_reply[k].ifindex # Some(ix))
                                  => sh[ix] = AbsentShape}
       \/ /\ lldp_transport \in LldpTransportFailures
          /\ lldp_reply = <<>>
          /\ shape = [ix \in 1..MaxLldpLinks |-> AbsentShape]
    /\ file = [ix \in 1..MaxLldpLinks |-> FileOf(shape[ix])]
    /\ lldp_pc = "start"
    /\ lldp_links = <<>>
    /\ lldp_i = 1
    /\ lldp_j = 0
    /\ lldp_pos = 0
    /\ lldp_u = <<>>
    /\ lldp_out = <<>>
    /\ lldp_log = <<>>
    /\ lldp_r = None
    /\ LinksIdle
    /\ OuiIdle
    /\ GwIdle
    /\ CapsIdle
    /\ StatusIdle
    /\ CmpIdle

lldpInputs == <<arg_legend, lldp_transport, lldp_reply, shape, file>>
notLldp == <<linksVars, ouiVars, gwVars, capsVars, statusVars, cmpVars>>

Logged(what) == Append(lldp_log, [what |-> what, i |-> lldp_i])

\* sd_netlink_open ... decode_and_sort_links, and the header
LldpStart ==
    /\ lldp_pc = "start"
    /\ LET t == lldp_transport
           failed == {x \in {t.open, t.new, t.dump, t.call} : x < 0}
       IN  IF failed # {}
           THEN /\ lldp_r' = Some(CHOOSE x \in failed : TRUE)
                /\ lldp_pc' = "done"
                /\ UNCHANGED <<lldp_links, lldp_out>>
           ELSE \E d \in decode_and_sort_links(lldp_reply, None) :
                  IF d.r < 0
                  THEN /\ lldp_r' = Some(d.r)
                       /\ lldp_pc' = "done"
                       /\ UNCHANGED <<lldp_links, lldp_out>>
                  ELSE /\ lldp_links' = Val(d.ret)
                       /\ lldp_out' = IF arg_legend THEN <<[kind |-> "header"]>> ELSE <<>>
                       /\ lldp_pc' = "loop"
                       /\ UNCHANGED lldp_r
    /\ lldp_i' = 1
    /\ lldp_j' = 0
    /\ UNCHANGED <<lldpInputs, lldp_pos, lldp_u, lldp_log, notLldp>>

\* One pass of the loop head: the next link's file is opened, or skipped
LldpOpenFile ==
    /\ lldp_pc = "loop"
    /\ lldp_i <= Len(lldp_links)
    /\ LET f == fopen(file[lldp_links[lldp_i].ifindex]) IN
       IF ~f.ok
       THEN /\ lldp_log' = IF f.errno = ENOENT THEN lldp_log ELSE Logged("open_failed")
            /\ lldp_i' = lldp_i + 1
            /\ UNCHANGED <<lldp_pc, lldp_pos>>
       ELSE /\ lldp_pc' = "read_length"
            /\ lldp_pos' = 0
            /\ UNCHANGED <<lldp_i, lldp_log>>
    /\ UNCHANGED <<lldpInputs, lldp_links, lldp_j, lldp_u, lldp_out, lldp_r, notLldp>>

\* l = fread(&u, 1, sizeof(u), f) and the two tests on l
LldpReadLength ==
    /\ lldp_pc = "read_length"
    /\ LET f == file[lldp_links[lldp_i].ifindex]
           got == fread(f, lldp_pos, SizeOf(8))
       IN  IF Len(got) = 0 /\ feof(f, lldp_pos, SizeOf(8))
           THEN /\ lldp_pc' = "loop"
                /\ lldp_i' = lldp_i + 1
                /\ UNCHANGED <<lldp_u, lldp_pos, lldp_log>>
           ELSE IF Len(got) # 8
           THEN /\ lldp_log' = Logged("premature_eof")
                /\ lldp_pc' = "loop"
                /\ lldp_i' = lldp_i + 1
                /\ UNCHANGED <<lldp_u, lldp_pos>>
           ELSE /\ lldp_u' = got
                /\ lldp_pos' = lldp_pos + 8
                /\ lldp_pc' = "read_payload"
                /\ UNCHANGED <<lldp_i, lldp_log>>
    /\ UNCHANGED <<lldpInputs, lldp_links, lldp_j, lldp_out, lldp_r, notLldp>>

\* The rest of the inner loop body: the allocation of raw, the read of the
\* frame, its parsing and the printing of the neighbor
LldpReadPayload ==
    /\ lldp_pc = "read_payload"
    /\ LET f == file[lldp_links[lldp_i].ifindex]
           size == le64toh(lldp_u)
           raw == fread(f, lldp_pos, size)
       IN  \E allocated \in new_raw(size) :
             IF ~allocated
             THEN /\ lldp_log' = Logged("oom")
                  /\ lldp_r' = Some(-ENOMEM)
                  /\ lldp_pc' = "done"
                  /\ UNCHANGED <<lldp_i, lldp_pos, lldp_out>>
             ELSE IF ~read_all(f, lldp_pos, size)
             THEN /\ lldp_log' = Logged("premature_eof")
                  /\ lldp_pc' = "loop"
                  /\ lldp_i' = lldp_i + 1
                  /\ UNCHANGED <<lldp_pos, lldp_out, lldp_r>>
             ELSE IF sd_lldp_neighbor_from_raw(raw) < 0
             THEN /\ lldp_log' = Logged("parse_failed")
                  /\ lldp_pc' = "loop"
                  /\ lldp_i' = lldp_i + 1
                  /\ UNCHANGED <<lldp_pos, lldp_out, lldp_r>>
             ELSE /\ lldp_out' = Append(lldp_out, [kind |-> "neighbor",
                                                   link |-> lldp_links[lldp_i].name,
                                                   frame |-> raw])
                  /\ lldp_pos' = lldp_pos + size.n
                  /\ lldp_pc' = "read_length"
                  /\ UNCHANGED <<lldp_i, lldp_log, lldp_r>>
    /\ UNCHANGED <<lldpInputs, lldp_links, lldp_j, lldp_u, notLldp>>

\* After the loop: the legend and return 0
LldpLegend ==
    /\ lldp_pc = "loop"
    /\ lldp_i > Len(lldp_links)
    /\ lldp_out' = IF arg_legend
                   THEN Append(lldp_out, [kind |-> "legend", total |-> lldp_j])
                   ELSE lldp_out
    /\ lldp_r' = Some(0)
    /\ lldp_pc' = "done"
    /\ UNCHANGED <<lldpInputs, lldp_links, lldp_i, lldp_j, lldp_pos, lldp_u, lldp_log, notLldp>>

NextLldp ==
    \/ LldpStart
    \/ LldpOpenFile
    \/ LldpReadLength
    \/ LldpReadPayload
    \/ LldpLegend

SpecLldp == InitLldp /\ [][NextLldp]_vars

\* ------------------------------------------------------------------------
\* link_lldp_status while a producer appends to the log files
\* ------------------------------------------------------------------------
\* What the producer means to write to a file: complete records only, no
\* frame twice
Plans ==
    {Shape("regular", recs, "none", <<>>) :
        recs \in {r \in SeqsUpTo({FrameA, FrameB}, MaxRecords) :
                    \A a, b \in DOMAIN r : a # b => r[a] # r[b]}}

InitLldpAppending ==
    /\ arg_legend = TRUE
    /\ lldp_transport = LldpTransportOk
    /\ lldp_reply \in {r \in LldpReplies : \A k \in DOMAIN r : r[k].name # None}
    /\ shape \in {sh \in [1..MaxLldpLinks -> Plans] :
                    \A ix \in 1..MaxLldpLinks :
                        (\A k \in DOMAIN lldp_reply : lldp_reply[k].ifindex # Some(ix))
                            => sh[ix].records = <<>>}
    /\ file = [ix \in 1..MaxLldpLinks |-> [kind |-> "regular", bytes |-> <<>>]]
    /\ lldp_pc = "start"
    /\ lldp_links = <<>>
    /\ lldp_i = 1
    /\ lldp_j = 0
    /\ lldp_pos = 0
    /\ lldp_u = <<>>
    /\ lldp_out = <<>>
    /\ lldp_log = <<>>
    /\ lldp_r = None
    /\ LinksIdle
    /\ OuiIdle
    /\ GwIdle
    /\ CapsIdle
    /\ StatusIdle
    /\ CmpIdle

\* One write of the producer: the next byte of a file, or all that is left of
\* it.  Writes of the sizes between reach the states that single bytes reach.
ProducerWrite ==
    /\ \E ix \in 1..MaxLldpLinks :
         LET whole == FileOf(shape[ix]).bytes
             have == Len(file[ix].bytes)
         IN  /\ have < Len(whole)
             /\ \E upto \in {have + 1, Len(whole)} :
                  file' = [file EXCEPT ![ix].bytes = SubSeq(whole, 1, upto)]
    /\ UNCHANGED <<arg_legend, lldp_transport, lldp_reply, shape, lldp_pc, lldp_links,
                   lldp_i, lldp_j, lldp_pos, lldp_u, lldp_out, lldp_log, lldp_r, notLldp>>

NextLldpAppending ==
    \/ LldpStart
    \/ LldpOpenFile
    \/ LldpReadLength
    \/ LldpReadPayload
    \/ LldpLegend
    \/ ProducerWrite

SpecLldpAppending == InitLldpAppending /\ [][NextLldpAppending]_vars

\* ------------------------------------------------------------------------
\* link_status, link_status_one and system_status
\* ------------------------------------------------------------------------
ENODEV == 19

\* Interface names are sequences of characters here, so that parse_ifindex can
\* read them.
DigitChars == <<"0", "1", "2", "3", "4", "5", "6", "7", "8", "9">>

IsDigit(c) == \E d \in DOMAIN DigitChars : DigitChars[d] = c

DigitValue(c) == (CHOOSE d \in DOMAIN DigitChars : DigitChars[d] = c) - 1

RECURSIVE DecimalValue(_)
DecimalValue(str) ==
    IF str = <<>> THEN 0
    ELSE 10 * DecimalValue(SubSeq(str, 1, Len(str) - 1)) + DigitValue(str[Len(str)])

\* parse_ifindex(name, &ifindex): the index a decimal string of a positive
\* number spells, else -EINVAL
parse_ifindex(name) ==
    IF name # <<>> /\ (\A k \in DOMAIN name : IsDigit(name[k])) /\ DecimalValue(name) > 0
    THEN DecimalValue(name)
    ELSE -EINVAL

\* The reply of the kernel to RTM_GETLINK for one link: by index, or by
\* IFLA_IFNAME when the index is 0.  None stands for the -ENODEV answer.
rtnl_getlink(links, ifindex, name) ==
    LET found == IF ifindex > 0
                 THEN {l \in links : l.ifindex = ifindex}
                 ELSE {l \in links : l.name = name}
    IN  IF found = {} THEN None ELSE Some(CHOOSE l \in found : TRUE)

\* The reply of the kernel to the RTM_GETLINK dump, in any order
rtnl_dump(links) ==
    {reply \in [1..Cardinality(links) -> {Msg(RTM_NEWLINK, Some(l.ifindex), Some(l.name),
                                               Some(l.iftype)) : l \in links}] :
        \A a, b \in DOMAIN reply : a # b => reply[a] # reply[b]}

\* The default routes and the neighbor table the kernel reports while the
\* status command runs
LocalGateways ==
    <<[ifindex |-> 2, family |-> AF_INET, address |-> <<10, 0>>],
      [ifindex |-> 3, family |-> AF_INET, address |-> <<20, 0>>]>>

StatusNeigh ==
    <<Neigh(0, Some(RTM_NEWNEIGH), Some(AF_INET), Some(2), Some(<<10, 0>>), Some(MacIntel)),
      Neigh(0, Some(RTM_NEWNEIGH), Some(AF_INET), Some(3), Some(<<20, 0>>), Some(MacUnknown))>>

\* local_gateways(rtnl, ifindex, AF_UNSPEC, &local): the gateways of the links
\* there are, of one link when ifindex > 0
local_gateways(links, ifindex) ==
    LET Wanted(g) == /\ \E l \in links : l.ifindex = g.ifindex
                     /\ (ifindex > 0 => g.ifindex = ifindex)
    IN  SelectSeq(LocalGateways, Wanted)

\* What dump_gateways prints for one gateway when the description is there
\* although the lookup did not succeed
gateway_line_always_annotated(h, links, ifindex, g) ==
    [gateway |-> g.address,
     description |-> Some("unknown"),
     on |-> IF ifindex <= 0 THEN Some(g.ifindex) ELSE None]

\* One line of dump_gateways: the gateway, " (description)" when
\* get_gateway_description produced one, " on <link>" when all links are shown
gateway_line(h, links, ifindex, g) ==
    [gateway |-> g.address,
     description |-> get_gateway_description(
                         h, [ifindex |-> g.ifindex, family |-> g.family,
                             gateway |-> g.address],
                         TransportOk, StatusNeigh).description,
     on |-> IF ifindex <= 0 THEN Some(g.ifindex) ELSE None]

\* dump_gateways(rtnl, hwdb, prefix, ifindex): the lines printed
dump_gateways(h, links, ifindex) ==
    LET local == local_gateways(links, ifindex)
    IN  [k \in DOMAIN local |-> gateway_line(h, links, ifindex, local[k])]

\* The stages of link_status_one that can fail apart from the kernel's answer:
\* making the request, and decoding ifindex, IFLA_IFNAME and type of the reply
StatusOneFailures == {None, Some("create"), Some("parse")}

\* The values an uint32_t mtu that was never written can hold
MtuUninitialised == {0, 1500}

\* link_status_one(rtnl, hwdb, name): [r, request, report].  request is what
\* was sent to the kernel (None when making it failed), report what is
\* printed (None when nothing is).  fail is the stage that fails, garbage the
\* content of mtu before the read of IFLA_MTU, which the code does not set.
link_status_one(links, h, name, fail, garbage) ==
    LET ifindex == parse_ifindex(name)
        by_index == ifindex >= 0
        request == Some([ifindex |-> IF by_index THEN ifindex ELSE 0,
                         name |-> IF by_index THEN None ELSE Some(name)])
        reply == IF by_index THEN rtnl_getlink(links, ifindex, name)
                             ELSE rtnl_getlink(links, 0, name)
    IN  IF fail = Some("create")
        THEN [r |-> -ENOMEM, request |-> None, report |-> None]
        ELSE IF reply = None
        THEN [r |-> -ENODEV, request |-> request, report |-> None]
        ELSE IF fail = Some("parse")
        THEN [r |-> -ENODATA, request |-> request, report |-> None]
        ELSE LET l == Val(reply)
                 have_mac == l.mac # None /\ Val(l.mac) # <<0, 0, 0, 0, 0, 0>>
                 mtu == IF l.mtu # None THEN Val(l.mtu) ELSE garbage
             IN  [r |-> 0,
                  request |-> request,
                  report |-> Some([ifindex |-> l.ifindex,
                                   name |-> l.name,
                                   iftype |-> l.iftype,
                                   hw_address |-> IF have_mac THEN l.mac ELSE None,
                                   hw_vendor |-> IF have_mac
                                                 THEN ieee_oui(h, l.mac, FALSE).ret
                                                 ELSE None,
                                   mtu |-> IF mtu > 0 THEN Some(mtu) ELSE None,
                                   address_filter |-> l.ifindex,
                                   gateways |-> dump_gateways(h, links, l.ifindex),
                                   tz |-> l.tz])]

\* system_status(rtnl, hwdb): what is printed; addresses and gateways of all
\* links
system_status(links, h) ==
    [kind |-> "system", address_filter |-> 0, gateway_filter |-> 0,
     gateways |-> dump_gateways(h, links, 0)]

\* --- inputs: the kernel's links and the command line
NameLo == <<"l", "o">>
NameEth0 == <<"e", "t", "h", "0">>
DecimalName(ix) == <<DigitChars[ix + 1]>>

IfaceNames == {NameLo, NameEth0} \cup {DecimalName(ix) : ix \in 1..MaxIfindex}

MacOf(ix) ==
    IF ix = 1 THEN Some(<<0, 0, 0, 0, 0, 0>>)
    ELSE IF ix = 2 THEN Some(MacIntel)
    ELSE IF ix = 3 THEN Some(MacUnknown)
    ELSE None

\* IFLA_MTU of the reply: link 2 comes without the attribute, link 3 with 0
MtuOf(ix) ==
    IF ix = 1 THEN Some(65536)
    ELSE IF ix = 2 THEN None
    ELSE Some(0)

\* The time zone networkd saved for the link, if any
TimezoneOf(ix) == IF ix = 2 THEN Some("UTC") ELSE None

KernelLink(ix, name) ==
    [ifindex |-> ix, name |-> name,
     iftype |-> IF ix = 1 THEN ARPHRD_LOOPBACK ELSE ARPHRD_ETHER,
     mac |-> MacOf(ix),
     mtu |-> MtuOf(ix),
     tz |-> TimezoneOf(ix)]

\* Every set of links with distinct indexes and distinct names
KernelTables ==
    {links \in SUBSET {KernelLink(ix, n) : ix \in 1..MaxIfindex, n \in IfaceNames} :
        \A a, b \in links : a # b => a.ifindex # b.ifindex /\ a.name # b.name}

InitStatus ==
    /\ arg_all \in BOOLEAN
    /\ st_argv \in SeqsUpTo(IfaceNames, MaxArgs)
    /\ kernel \in KernelTables
    /\ st_open \in {0, -ENOMEM}
    /\ hwdb = None
    /\ oui_call = None
    /\ oui_prev = None
    /\ st_pc = "start"
    /\ st_links = <<>>
    /\ st_i = 1
    /\ st_out = <<>>
    /\ st_r = None
    /\ LinksIdle
    /\ GwIdle
    /\ CapsIdle
    /\ LldpIdle
    /\ CmpIdle

statusInputs == <<arg_all, st_argv, kernel, st_open>>
notStatus == <<linksVars, oui_call, oui_prev, gwVars, capsVars, lldpVars, cmpVars>>

\* The mode link_status picks when the flag is looked at after the names
status_mode_names_before_all(argc, all) ==
    IF argc <= 1 /\ ~all THEN "system"
    ELSE IF argc > 1 THEN "names"
    ELSE "all"

\* The mode link_status picks from argc and arg_all
status_mode(argc, all) ==
    IF argc <= 1 /\ ~all THEN "system"
    ELSE IF all THEN "all"
    ELSE "names"

\* link_status up to the loops: sd_netlink_open, sd_hwdb_new, the choice of
\* the mode, system_status, and in "all" mode the enumeration of the links
StatusStart ==
    /\ st_pc = "start"
    /\ IF st_open < 0
       THEN /\ st_r' = Some(st_open)
            /\ st_pc' = "done"
            /\ UNCHANGED <<hwdb, st_links, st_out>>
       ELSE /\ hwdb' \in {None, Some(GwDatabase)}
            /\ IF status_mode(Len(st_argv) + 1, arg_all) = "system"
               THEN /\ st_out' = <<system_status(kernel, hwdb')>>
                    /\ st_r' = Some(0)
                    /\ st_pc' = "done"
                    /\ UNCHANGED st_links
               ELSE IF status_mode(Len(st_argv) + 1, arg_all) = "all"
               THEN \E reply \in rtnl_dump(kernel) :
                      \E d \in decode_and_sort_links(reply, None) :
                        /\ st_out' = <<[kind |-> "enumerate"]>>
                        /\ IF d.r < 0
                           THEN /\ st_r' = Some(d.r)
                                /\ st_pc' = "done"
                                /\ UNCHANGED st_links
                           ELSE /\ st_links' = Val(d.ret)
                                /\ st_pc' = "loop"
                                /\ UNCHANGED st_r
               ELSE /\ st_pc' = "loop"
                    /\ UNCHANGED <<st_links, st_out, st_r>>
    /\ st_i' = 1
    /\ UNCHANGED <<statusInputs, notStatus>>

\* The interface set of the loop that link_status runs
InterfaceSet ==
    IF status_mode(Len(st_argv) + 1, arg_all) = "all"
    THEN [k \in DOMAIN st_links |-> st_links[k].name]
    ELSE st_argv

\* What one call of link_status_one adds to the trace: the request sent, then
\* the report printed or the error logged
StatusOneTrace(i, one) ==
    (IF one.request = None THEN <<>>
     ELSE <<[kind |-> "request", i |-> i, request |-> Val(one.request)]>>)
    \o (IF one.report = None THEN <<[kind |-> "error", i |-> i, r |-> one.r]>>
        ELSE <<[kind |-> "report", i |-> i, report |-> Val(one.report)]>>)

\* One iteration that returns from link_status when link_status_one fails
StatusOne_returning_on_failure ==
    /\ st_pc = "loop"
    /\ st_i <= Len(InterfaceSet)
    /\ \E fail \in StatusOneFailures, garbage \in MtuUninitialised :
         LET one == link_status_one(kernel, hwdb, InterfaceSet[st_i], fail, garbage)
             separated == IF st_i > 1 THEN Append(st_out, [kind |-> "separator"])
                          ELSE st_out
         IN  /\ st_out' = separated \o StatusOneTrace(st_i, one)
             /\ IF one.r < 0
                THEN st_pc' = "done" /\ st_r' = Some(one.r)
                ELSE UNCHANGED <<st_pc, st_r>>
    /\ st_i' = st_i + 1
    /\ UNCHANGED <<statusInputs, hwdb, st_links, notStatus>>

\* One iteration of either loop: the separator, then link_status_one, whose
\* return value is dropped
StatusOne ==
    /\ st_pc = "loop"
    /\ st_i <= Len(InterfaceSet)
    /\ \E fail \in StatusOneFailures, garbage \in MtuUninitialised :
         LET one == link_status_one(kernel, hwdb, InterfaceSet[st_i], fail, garbage)
             separated == IF st_i > 1 THEN Append(st_out, [kind |-> "separator"])
                          ELSE st_out
         IN  st_out' = separated \o StatusOneTrace(st_i, one)
    /\ st_i' = st_i + 1
    /\ UNCHANGED <<statusInputs, hwdb, st_pc, st_links, st_r, notStatus>>

\* After the loop: return 0
StatusReturn ==
    /\ st_pc = "loop"
    /\ st_i > Len(InterfaceSet)
    /\ st_r' = Some(0)
    /\ st_pc' = "done"
    /\ UNCHANGED <<statusInputs, hwdb, st_links, st_i, st_out, notStatus>>

NextStatus ==
    \/ StatusStart
    \/ StatusOne
    \/ StatusReturn

SpecStatus == InitStatus /\ [][NextStatus]_vars

\* ------------------------------------------------------------------------
\* link_info_compare over the whole range of int
\* ------------------------------------------------------------------------
INT_MIN == -INT_MAX - 1

\* x - y leaves the range of int: the subtraction is undefined
SubOverflows(a, b) ==
    \/ a >= 0 /\ b < 0 /\ a > INT_MAX + b
    \/ a < 0 /\ b > 0 /\ a < INT_MIN + b

\* What a build can make of link_info_compare(x, y): the difference; where the
\* subtraction overflows, the wrapped difference or a trap
link_info_compare_outcomes(x, y) ==
    IF SubOverflows(x.ifindex, y.ifindex)
    THEN {[trapped |-> FALSE, value |-> link_info_compare(x, y)],
          [trapped |-> TRUE, value |-> 0]}
    ELSE {[trapped |-> FALSE, value |-> link_info_compare(x, y)]}

IndexValues == {INT_MIN, INT_MIN + 1, -2, -1, 0, 1, 2, 3, INT_MAX - 1, INT_MAX}

IndexRecord(ix) == [ifindex |-> ix, name |-> "lo", iftype |-> ARPHRD_LOOPBACK]

InitCompare ==
    /\ cmp_x \in IndexValues
    /\ cmp_y \in IndexValues
    /\ cmp_ret = None
    /\ cmp_sorted = None
    /\ LinksIdle
    /\ OuiIdle
    /\ GwIdle
    /\ CapsIdle
    /\ LldpIdle
    /\ StatusIdle

notCompare == <<linksVars, ouiVars, gwVars, capsVars, lldpVars, statusVars>>

\* One call of link_info_compare
LinkInfoCompare ==
    /\ cmp_ret = None
    /\ \E out \in link_info_compare_outcomes(IndexRecord(cmp_x), IndexRecord(cmp_y)) :
         cmp_ret' = Some(out)
    /\ UNCHANGED <<cmp_x, cmp_y, cmp_sorted, notCompare>>

\* qsort_safe(links, c, sizeof(LinkInfo), link_info_compare) on the two records
SortPair ==
    /\ cmp_sorted = None
    /\ \E a \in qsort_safe(<<IndexRecord(cmp_x), IndexRecord(cmp_y)>>) :
         cmp_sorted' = Some(a)
    /\ UNCHANGED <<cmp_x, cmp_y, cmp_ret, notCompare>>

NextCompare ==
    \/ LinkInfoCompare
    \/ SortPair

SpecCompare == InitCompare /\ [][NextCompare]_vars

\* ------------------------------------------------------------------------
\* Claims about decode_and_sort_links (checked under SpecLinks)
\* ------------------------------------------------------------------------
NewLinkAt == {i \in DOMAIN m : m[i].type = RTM_NEWLINK}

LacksField(msg) == msg.ifindex = None \/ msg.name = None \/ msg.iftype = None

DecodeSucceeded == dl_r # None /\ Val(dl_r) >= 0

\* C1: when decode_and_sort_links succeeds, the array it hands out is sorted by
\* non-decreasing ifindex, its length is the return value and the number of
\* RTM_NEWLINK messages of the stream, and its records are, one for one, the
\* (name, ifindex, iftype) of the RTM_NEWLINK messages; other messages add
\* nothing.
C1_SortedOnePerNewLink ==
    DecodeSucceeded =>
        /\ dl_links # None
        /\ LET out == Val(dl_links) IN
           /\ \A i, j \in DOMAIN out : i < j => out[i].ifindex <= out[j].ifindex
           /\ Val(dl_r) = Len(out)
           /\ Len(out) = Cardinality(NewLinkAt)
           /\ \E f \in [DOMAIN out -> NewLinkAt] :
                /\ \A i, j \in DOMAIN out : i # j => f[i] # f[j]
                /\ \A i \in DOMAIN out :
                     /\ Some(out[i].name) = m[f[i]].name
                     /\ Some(out[i].ifindex) = m[f[i]].ifindex
                     /\ Some(out[i].iftype) = m[f[i]].iftype

\* A successful decode of a stream whose two links arrive in descending index
\* order around a message of another type.
C1_Witness ==
    /\ DecodeSucceeded
    /\ Len(m) = 3
    /\ m[1].type = RTM_NEWLINK /\ m[2].type = RTM_DELLINK /\ m[3].type = RTM_NEWLINK
    /\ Val(m[1].ifindex) > Val(m[3].ifindex)
    /\ Val(dl_r) = 2

Top3(mac) == <<mac[1], mac[2], mac[3]>>

Rejected(call) ==
    hwdb = None \/ call.mac = None \/ Top3(Val(call.mac)) = <<0, 0, 0>>

\* C6: with a null database handle, a null address or an address whose first
\* three bytes are zero, ieee_oui returns -EINVAL, queries nothing and leaves
\* *ret unwritten, whatever the database holds and whatever the last three
\* bytes are; a database miss on any other address returns another negative
\* value and leaves *ret unwritten too.
C6_NotApplicable ==
    oui_call # None =>
        LET call == Val(oui_call) IN
        /\ Rejected(call) =>
              /\ call.out.r = -EINVAL
              /\ call.out.queried = <<>>
              /\ call.out.ret = None
        /\ (~Rejected(call) /\ \A en \in Val(hwdb) : ~HwdbMatches(en, modalias(Val(call.mac)))) =>
              /\ call.out.r < 0
              /\ call.out.r # -EINVAL
              /\ call.out.ret = None

\* ieee_oui was called on 00:00:00:AB:CD:EF with a database that has an entry
\* for exactly that address and one for the 00:00:00 prefix.
C6_Witness ==
    /\ oui_call # None
    /\ hwdb # None
    /\ Val(oui_call).mac = Some(<<0, 0, 0, 171, 205, 239>>)
    /\ \E en \in Val(hwdb) : HwdbMatches(en, modalias(<<0, 0, 0, 171, 205, 239>>))
    /\ Val(oui_call).out.r = -EINVAL

BothQueried ==
    /\ oui_call # None /\ oui_prev # None
    /\ Val(oui_call).out.queried # <<>>
    /\ Val(oui_prev).out.queried # <<>>

\* C8 as stated: two addresses that agree on their first three bytes are looked
\* up under the same key.
C8_KeyFromTop3Only ==
    BothQueried =>
        (Top3(Val(Val(oui_call).mac)) = Top3(Val(Val(oui_prev).mac))
            => Val(oui_call).out.queried = Val(oui_prev).out.queried)

\* C8 amended: the key is "OUI:" followed by the two hexadecimal digits of each
\* of the six bytes of the address, so two addresses are looked up under the
\* same key exactly when all six bytes agree; addresses that agree on the first
\* three bytes share the first ten characters of the key.
C8_KeyFromAllSixBytes ==
    BothQueried =>
        LET a == Val(Val(oui_call).mac)
            b == Val(Val(oui_prev).mac)
            ka == Val(oui_call).out.queried[1]
            kb == Val(oui_prev).out.queried[1]
        IN  /\ Len(ka) = 16
            /\ (ka = kb) <=> (a = b)
            /\ (Top3(a) = Top3(b)) <=> (SubSeq(ka, 1, 10) = SubSeq(kb, 1, 10))

\* Two addresses with the same first three bytes and different last bytes were
\* both looked up.
C8_Witness ==
    /\ BothQueried
    /\ Val(oui_call).mac = Some(<<171, 205, 239, 1, 2, 3>>)
    /\ Val(oui_prev).mac = Some(<<171, 205, 239, 0, 0, 0>>)
    /\ Val(oui_call).out.queried # Val(oui_prev).out.queried

\* ------------------------------------------------------------------------
\* Claims about get_gateway_description (checked under SpecGateway)
\* ------------------------------------------------------------------------
DumpObtained == gw_transport.new >= 0 /\ gw_transport.dump >= 0 /\ gw_transport.call >= 0

\* The predicates of an entry: no transport error, type RTM_NEWNEIGH, the
\* requested family, the requested interface when one is requested, the target
\* gateway as destination, a link-layer address.
PassesAll(i) ==
    LET e == neigh[i] IN
    /\ e.errno = 0
    /\ e.type = Some(RTM_NEWNEIGH)
    /\ e.family = Some(gw_req.family)
    /\ e.ifindex # None
    /\ gw_req.ifindex > 0 => e.ifindex = Some(gw_req.ifindex)
    /\ e.dst # None
    /\ IF gw_req.family = AF_INET
       THEN Val(e.dst)[1] = gw_req.gateway[1]
       ELSE Val(e.dst) = gw_req.gateway
    /\ e.lladdr # None

VendorOf(i) == ieee_oui(hwdb, neigh[i].lladdr, FALSE)

Resolvable(i) == PassesAll(i) /\ VendorOf(i).r >= 0

FirstPassing(k) == PassesAll(k) /\ \A j \in 1..(k - 1) : ~PassesAll(j)

FirstResolvable(k) == Resolvable(k) /\ \A j \in 1..(k - 1) : ~Resolvable(j)

\* C2 as stated: the result is the Vendor Resolver's result for the first entry
\* that passes all predicates, and the scan ends at that entry.
C2_FirstMatchDecides ==
    (gw_out # None /\ DumpObtained) =>
        \A k \in DOMAIN neigh :
            FirstPassing(k) =>
                /\ Val(gw_out).r = VendorOf(k).r
                /\ Val(gw_out).description = VendorOf(k).ret
                /\ Val(gw_out).examined = k

\* C2 amended: the call succeeds with the description of the first entry, in
\* table order, that passes all predicates and whose link-layer address the
\* Vendor Resolver resolves; entries failing a predicate and entries whose
\* vendor lookup fails are skipped; no entry after the accepted one is visited.
C2_FirstResolvableDecides ==
    (gw_out # None /\ DumpObtained) =>
        \A k \in DOMAIN neigh :
            FirstResolvable(k) =>
                /\ Val(gw_out).r = 0
                /\ Val(gw_out).description = VendorOf(k).ret
                /\ Val(gw_out).description # None
                /\ Val(gw_out).examined = k

\* Two entries for the gateway, the first without a link-layer address, and a
\* third entry that would resolve to another vendor: the second entry decided.
C2_Witness ==
    /\ gw_out # None /\ DumpObtained
    /\ Len(neigh) = 3
    /\ neigh[1].lladdr = None /\ PassesAll(2) /\ PassesAll(3)
    /\ neigh[2].dst = neigh[1].dst
    /\ VendorOf(2).ret = Some("Intel") /\ VendorOf(3).ret = Some("Acme")
    /\ Val(gw_out).description = Some("Intel")
    /\ Val(gw_out).examined = 2

\* C7 as stated: -ENODATA exactly when the dump was obtained and no entry passes
\* all predicates; a failure to obtain the dump is returned as such; the
\* description stays unset in both cases.
C7_NoDataIffNoMatch ==
    gw_out # None =>
        /\ (Val(gw_out).r = -ENODATA) <=>
              (DumpObtained /\ \A i \in DOMAIN neigh : ~PassesAll(i))
        /\ ~DumpObtained =>
              /\ Val(gw_out).r \in {gw_transport.new, gw_transport.dump, gw_transport.call}
              /\ Val(gw_out).r < 0 /\ Val(gw_out).r # -ENODATA
        /\ (Val(gw_out).r = -ENODATA \/ ~DumpObtained) => Val(gw_out).description = None

\* C7 amended: -ENODATA exactly when the dump was obtained and no entry both
\* passes all predicates and has a link-layer address the Vendor Resolver
\* resolves; a failure to create, mark or complete the query is returned as
\* that failure, never as -ENODATA and never as success; the description stays
\* unset in both cases.
C7_NoDataIffNothingResolvable ==
    gw_out # None =>
        /\ (Val(gw_out).r = -ENODATA) <=>
              (DumpObtained /\ \A i \in DOMAIN neigh : ~Resolvable(i))
        /\ ~DumpObtained =>
              /\ Val(gw_out).r \in {gw_transport.new, gw_transport.dump, gw_transport.call}
              /\ Val(gw_out).r < 0 /\ Val(gw_out).r # -ENODATA
        /\ (Val(gw_out).r = -ENODATA \/ ~DumpObtained) => Val(gw_out).description = None

\* The dump was obtained, an entry passes all predicates, its address has no
\* vendor in the database, and the call returned -ENODATA.
C7_Witness ==
    /\ gw_out # None /\ DumpObtained
    /\ hwdb # None
    /\ \E i \in DOMAIN neigh : PassesAll(i) /\ neigh[i].lladdr = Some(MacUnknown)
    /\ Val(gw_out).r = -ENODATA
    /\ Val(gw_out).description = None

\* ------------------------------------------------------------------------
\* Claims about lldp_capabilities_to_string (checked under SpecCaps)
\* ------------------------------------------------------------------------
CapsLetters == <<"o", "p", "b", "w", "r", "t", "d", "a", "c", "s", "m">>

BitSet(x, i) == (x \div (2 ^ i)) % 2 = 1

\* C5: for every 16-bit x the string lldp_capabilities_to_string(x) returns has
\* exactly 11 characters, the i-th (i = 0..10) being the i-th letter of
\* o p b w r t d a c s m when bit i of x is set and '.' otherwise; bits 11..15
\* do not matter; 0b101 gives "o.b........".  (The function returns NULL
\* instead only when the allocation of the string fails.)
C5_CapabilityString ==
    caps_ret # None =>
        /\ (Val(caps_ret) = None) <=> ~caps_alloc
        /\ Val(caps_ret) # None =>
              LET str == Val(Val(caps_ret)) IN
              /\ Len(str) = 11
              /\ \A i \in 0..10 :
                    str[i + 1] = IF BitSet(caps_x, i) THEN CapsLetters[i + 1] ELSE "."
              /\ \A i \in 0..10 :
                    (str[i + 1] # ".") <=> BitSet(caps_x % 2048, i)
              /\ caps_x = 5 =>
                    str = <<"o", ".", "b", ".", ".", ".", ".", ".", ".", ".", ".">>

\* The string was produced for a value with bits 5 and 6 and a bit above bit 10
\* set.
C5_Witness ==
    /\ caps_ret # None /\ Val(caps_ret) # None
    /\ BitSet(caps_x, 5) /\ BitSet(caps_x, 6) /\ BitSet(caps_x, 12)
    /\ Val(Val(caps_ret))[6] = "t"

\* ------------------------------------------------------------------------
\* Claims about link_lldp_status (checked under SpecLldp)
\* ------------------------------------------------------------------------
\* The command ran to its return after a successful enumeration of the links
LldpScanned ==
    /\ lldp_pc = "done"
    /\ lldp_transport = LldpTransportOk
    /\ \A k \in DOMAIN lldp_reply : ~LacksField(lldp_reply[k])

IsNeighborOf(line, name) == line.kind = "neighbor" /\ line.link = name

\* The frames printed for the link called name, in order
FramesOf(name) ==
    LET Mine(line) == IsNeighborOf(line, name)
        lines == SelectSeq(lldp_out, Mine)
    IN  [k \in DOMAIN lines |-> lines[k].frame]

\* The log entries of the given kind written while link number i was scanned
LogCount(what, i) ==
    Cardinality({k \in DOMAIN lldp_log : lldp_log[k].what = what /\ lldp_log[k].i = i})

ShapeOfLink(i) == shape[Val(lldp_reply[i].ifindex)]

\* Every file of the scan is N complete parsable records followed by nothing,
\* by a fragment of a length prefix or by a length prefix with less payload
\* than it declares
AllFilesCutAtMost ==
    \A i \in DOMAIN lldp_reply :
        /\ ShapeOfLink(i).kind = "regular"
        /\ ShapeOfLink(i).tailKind \in {"none", "fragment", "short"}

\* C3: for a log file of N complete parsable records followed by nothing, by
\* 1-7 bytes of a length prefix or by a full length prefix with less payload
\* than it declares, exactly the N records are printed in file order, one
\* truncation warning is logged in the two truncated cases and none otherwise,
\* and link_lldp_status returns 0.
C3_TruncatedTailTolerated ==
    (LldpScanned /\ AllFilesCutAtMost) =>
        /\ lldp_r = Some(0)
        /\ \A i \in DOMAIN lldp_links :
              LET sh == shape[lldp_links[i].ifindex] IN
              /\ FramesOf(lldp_links[i].name) = sh.records
              /\ LogCount("premature_eof", i) = (IF sh.tailKind = "none" THEN 0 ELSE 1)
        /\ \A k \in DOMAIN lldp_log : lldp_log[k].what = "premature_eof"

\* C4: whatever an interface's log file holds, the problem ends the decoding
\* of that file only: the records before it are printed, every interface of
\* the sorted list is scanned, each one's leading records are printed, and the
\* command returns 0.
C4_BadFileEndsOnlyThatFile ==
    LldpScanned =>
        /\ lldp_r = Some(0)
        /\ lldp_i = Len(lldp_links) + 1
        /\ Len(lldp_links) = Len(lldp_reply)
        /\ \A i \in DOMAIN lldp_links :
              FramesOf(lldp_links[i].name) = shape[lldp_links[i].ifindex].records

\* ------------------------------------------------------------------------
\* Claims about link_status (checked under SpecStatus)
\* ------------------------------------------------------------------------
IsReport(line) == line.kind = "report"

Reports == SelectSeq(st_out, IsReport)

AllModeDone == st_pc = "done" /\ arg_all /\ st_open >= 0

\* C9: in "all" mode the reports come in the order of the sorted link list and
\* the report printed for the i-th link record shows the interface index of
\* that record, whatever the links are called.
C9_ReportMatchesLinkRecord ==
    arg_all =>
        \A k \in DOMAIN Reports :
            /\ Reports[k].i \in DOMAIN st_links
            /\ Reports[k].report.ifindex = st_links[Reports[k].i].ifindex
            /\ \A j \in DOMAIN Reports : j < k => Reports[j].i < Reports[k].i

IsOutcome(line) == line.kind \in {"report", "error"}

Outcomes == SelectSeq(st_out, IsOutcome)

IsSeparator(line) == line.kind = "separator"

\* The position in st_out of the first thing interface i left there
FirstOf(i) ==
    CHOOSE p \in DOMAIN st_out :
        /\ st_out[p].kind \in {"request", "report", "error"}
        /\ st_out[p].i = i
        /\ \A q \in 1..(p - 1) :
              st_out[q].kind \in {"request", "report", "error"} => st_out[q].i # i

LoopMode == st_open >= 0 /\ (arg_all \/ Len(st_argv) > 0) /\ st_pc \in {"loop", "done"}

WithoutVendors(gateways) ==
    [k \in DOMAIN gateways |-> [gateways[k] EXCEPT !.description = None]]

ReportWithoutVendors(report) ==
    [report EXCEPT !.hw_vendor = None, !.gateways = WithoutVendors(@)]

\* What the i-th iteration can print or log when the database is open
ReportsWithDatabase(i) ==
    {link_status_one(kernel, Some(GwDatabase), InterfaceSet[i], fail, garbage) :
        fail \in StatusOneFailures, garbage \in MtuUninitialised}

NullHandle == st_open >= 0 /\ st_pc \in {"loop", "done"} /\ hwdb = None

\* C12: with the null database handle the command runs to the same end and
\* prints what it prints with an open database, less the vendor annotations of
\* hardware addresses and gateways.
C12_NullHandleDropsOnlyVendors ==
    NullHandle =>
        /\ st_pc = "done" => st_r = Some(0)
        /\ LoopMode => Len(Outcomes) = st_i - 1
        /\ \A p \in DOMAIN st_out :
              LET ev == st_out[p] IN
              /\ ev.kind = "report" =>
                    /\ ev.report.hw_vendor = None
                    /\ \A k \in DOMAIN ev.report.gateways :
                          ev.report.gateways[k].description = None
                    /\ \E one \in ReportsWithDatabase(ev.i) :
                          /\ one.report # None
                          /\ ev.report = ReportWithoutVendors(Val(one.report))
              /\ ev.kind = "error" =>
                    \E one \in ReportsWithDatabase(ev.i) :
                        one.report = None /\ one.r = ev.r
              /\ ev.kind = "system" =>
                    /\ \A k \in DOMAIN ev.gateways : ev.gateways[k].description = None
                    /\ ev = [system_status(kernel, Some(GwDatabase))
                                EXCEPT !.gateways = WithoutVendors(@)]

\* A finished run with the null handle that printed a hardware address and a
\* gateway for which the open database has a vendor
C12_Witness ==
    /\ NullHandle
    /\ st_pc = "done"
    /\ \E p \in DOMAIN st_out :
          /\ st_out[p].kind = "report"
          /\ st_out[p].report.hw_address = Some(MacIntel)
          /\ Len(st_out[p].report.gateways) > 0
          /\ \E one \in ReportsWithDatabase(st_out[p].i) :
                /\ one.report # None
                /\ Val(one.report).hw_vendor = Some("Intel")
                /\ Val(one.report).gateways[1].description = Some("Intel")

HasKind(kind) == \E p \in DOMAIN st_out : st_out[p].kind = kind

\* The request link_status_one sends for a name
RequestFor(name) == Val(link_status_one(kernel, hwdb, name, None, 0).request)

Started == st_open >= 0 /\ st_pc \in {"loop", "done"}

\* The links of the kernel as the sorted list of link records
IsSortedLinkList(links) ==
    /\ Len(links) = Cardinality(kernel)
    /\ \A k \in DOMAIN links :
          \E l \in kernel : links[k] = [ifindex |-> l.ifindex, name |-> l.name,
                                        iftype |-> l.iftype]
    /\ \A j, k \in DOMAIN links : j < k => links[j].ifindex < links[k].ifindex

\* C13: the command runs system-wide exactly when no name is given and the
\* flag is unset, and then enumerates and reports no link and gathers with
\* filter 0; with the flag set the interfaces are the sorted link list, and the
\* names given are the interfaces only when the flag is unset.
C13_ModeChoice ==
    Started =>
        /\ HasKind("system") <=> (Len(st_argv) = 0 /\ ~arg_all)
        /\ HasKind("system") =>
              /\ Len(st_out) = 1
              /\ st_out[1].address_filter = 0
              /\ st_out[1].gateway_filter = 0
              /\ \A k \in DOMAIN st_out[1].gateways : st_out[1].gateways[k].on # None
        /\ HasKind("enumerate") <=> arg_all
        /\ arg_all =>
              /\ IsSortedLinkList(st_links)
              /\ Len(Outcomes) = IF st_pc = "done" THEN Len(st_links) ELSE st_i - 1
              /\ \A p \in DOMAIN st_out :
                    st_out[p].kind = "request" =>
                        st_out[p].request = RequestFor(st_links[st_out[p].i].name)
        /\ (~arg_all /\ Len(st_argv) > 0) =>
              /\ st_links = <<>>
              /\ Len(Outcomes) = IF st_pc = "done" THEN Len(st_argv) ELSE st_i - 1
              /\ \A p \in DOMAIN st_out :
                    st_out[p].kind = "request" =>
                        st_out[p].request = RequestFor(st_argv[st_out[p].i])

\* A finished run with the flag set and a name given that none of the links
\* has: the links were enumerated and queried, the name was not
C13_Witness ==
    /\ Started
    /\ st_pc = "done"
    /\ arg_all
    /\ Len(st_argv) > 0
    /\ \A l \in kernel : l.name # st_argv[1] /\ parse_ifindex(st_argv[1]) # l.ifindex
    /\ Len(st_links) >= 2
    /\ \E p \in DOMAIN st_out : st_out[p].kind = "report"

\* The link of the kernel a report is about
LinkOfReport(report) == CHOOSE l \in kernel : l.ifindex = report.ifindex

\* C15: a report has an MTU line exactly when IFLA_MTU was read from the reply
\* with a value greater than 0, and the line shows that value; a reply without
\* the attribute gives no MTU line.
C15_MtuLineOnlyFromAttribute ==
    \A p \in DOMAIN st_out :
        st_out[p].kind = "report" =>
            LET l == LinkOfReport(st_out[p].report) IN
            st_out[p].report.mtu = IF l.mtu # None /\ Val(l.mtu) > 0 THEN l.mtu ELSE None

IsNeighbor(line) == line.kind = "neighbor"

\* C16: the total the legend of the lldp command shows is the number of
\* neighbor lines printed during the scan.
C16_LegendCountsNeighbors ==
    \A p \in DOMAIN lldp_out :
        lldp_out[p].kind = "legend" =>
            lldp_out[p].total = Len(SelectSeq(lldp_out, IsNeighbor))

\* ------------------------------------------------------------------------
\* Claims about link_info_compare (checked under SpecCompare)
\* ------------------------------------------------------------------------
\* C17: for every pair of int indexes link_info_compare is negative, zero or
\* positive as the first index is less than, equal to or greater than the
\* second, and sorting with it leaves the indexes ascending.
C17_CompareIsNumericOrder ==
    /\ cmp_ret # None =>
          /\ ~Val(cmp_ret).trapped
          /\ Val(cmp_ret).value < 0 <=> cmp_x < cmp_y
          /\ Val(cmp_ret).value = 0 <=> cmp_x = cmp_y
          /\ Val(cmp_ret).value > 0 <=> cmp_x > cmp_y
    /\ cmp_sorted # None =>
          Val(cmp_sorted)[1].ifindex <= Val(cmp_sorted)[2].ifindex

\* ------------------------------------------------------------------------
\* Claims about link_lldp_status beside a producer (SpecLldpAppending)
\* ------------------------------------------------------------------------
IsPrefix(a, b) == Len(a) <= Len(b) /\ a = SubSeq(b, 1, Len(a))

\* The bytes of the first n records of a plan
RecordBytes(sh, n) ==
    Flatten([k \in 1..n |-> LE64(Len(sh.records[k])) \o sh.records[k]])

\* The records the producer has written completely to the file of link ix
CompletelyWritten(ix) ==
    LET sh == shape[ix]
        n == CHOOSE c \in 0..Len(sh.records) :
                 /\ Len(RecordBytes(sh, c)) <= Len(file[ix].bytes)
                 /\ \A d \in (c + 1)..Len(sh.records) :
                       Len(RecordBytes(sh, d)) > Len(file[ix].bytes)
    IN  SubSeq(sh.records, 1, n)

\* C14: while a producer appends records to the log files, in order and in
\* writes of any size, the records printed for a file are at every moment a
\* prefix of the records written to it completely, and the scan ends with 0.
C14_EmitsOnlyCompleteRecords ==
    /\ \A i \in DOMAIN lldp_links :
          IsPrefix(FramesOf(lldp_links[i].name), CompletelyWritten(lldp_links[i].ifindex))
    /\ lldp_pc = "done" => lldp_r = Some(0)
    /\ \A k \in DOMAIN lldp_log : lldp_log[k].what = "premature_eof"

\* A finished scan that met a file in the middle of a record after it had
\* printed a record of that file, the producer having finished since
C14_Witness ==
    /\ lldp_pc = "done"
    /\ \E i \in DOMAIN lldp_links :
          LET ix == lldp_links[i].ifindex IN
          /\ LogCount("premature_eof", i) = 1
          /\ Len(FramesOf(lldp_links[i].name)) = 1
          /\ Len(CompletelyWritten(ix)) = 2
          /\ file[ix] = FileOf(shape[ix])

=============================================================================
